---- MODULE Spec2Model ----
(***************************************************************************)
(* Iterative Hard Thresholding for categorical features                    *)
(* (src/Iterative_Hard_Thresholding.ipynb).                                *)
(*                                                                         *)
(* The notebook's state is its globals: the raw data and labels, the      *)
(* train/test split, the group structure (classCount, indices), the       *)
(* hyper-parameters (epoch, lr, s), the current batch (X_current,         *)
(* Y_current, weight) and the coefficient matrix cof.                      *)
(*                                                                         *)
(* Arrays are 1-based here: Python's x[j] is x[j+1] below.  A matrix is a  *)
(* sequence of rows, coeff[k][c] = class k, one-hot column c.              *)
(*                                                                         *)
(* Reals.  Every quantity the algorithm compares is a ratio of integers   *)
(* once a positive common factor is taken out, so the model keeps the     *)
(* integer numerators:                                                     *)
(*   - a group score (a mean) is the pair <<sum, count>>, compared by     *)
(*     cross-multiplication;                                               *)
(*   - a class weight n/(numClasses*count(c)) is kept in units of         *)
(*     n/(numClasses*Fact(n)), i.e. as Fact(n) \div count(c);              *)
(*   - cof is kept in units of lr * n / (b * numClasses^3 *               *)
(*     (numClasses+1) * Fact(n)), b the batch size.                        *)
(* Ranking, zero tests and equality are unchanged by a positive factor.    *)
(***************************************************************************)
EXTENDS Integers, Sequences, FiniteSets, TLC

VARIABLES
    data,        \* raw categorical data, one row of F category values per sample
    label,       \* class id of every sample (after LabelEncoder: 1..numClasses)
    trainIdx,    \* train_test_split: the samples of the training set, in order
    X_trainC,    \* the one-hot rows of the training samples
    y_train,     \* the labels of the training samples
    classWL,     \* one class weight per sample of the whole data set
    classCount,  \* number of categories of every original feature
    s,           \* sparsity budget
    epoch,       \* number of iterations
    pc,          \* position of the running cell
    i,           \* iterations done
    index,       \* generateBatch: the permutation drawn
    X_current,   \* the batch's one-hot rows
    Y_current,   \* the batch's labels
    weight,      \* the batch's per-sample weights
    cof,         \* the coefficient matrix
    evalCof,     \* the matrix regression/regressionTest were last evaluated on
    coeffArg,    \* value of the array passed to the last thresholding call
    coeffObj,    \* content of that same array object after the call returned
    retIsView,   \* the array thresholding returned shares its argument's buffer
    argsorted,   \* the order np.argsort returned in the last thresholding call
    rankingBest, \* the groups the last thresholding call selected
    printed,     \* number of "rankBest less than s features" lines printed
    numGrad,     \* gradient steps taken so far
    numThresh    \* thresholding calls made so far

vars == <<data, label, trainIdx, X_trainC, y_train, classWL, classCount, s, epoch, pc, i, index, X_current,
          Y_current, weight, cof, evalCof, coeffArg, coeffObj, retIsView,
          argsorted, rankingBest, printed, numGrad, numThresh>>

----------------------------------------------------------------------------
(* Bounds of the model *)

\* coefficient entries of the thresholding specification range over -MaxAbs..MaxAbs
MaxAbs == 1
\* the largest epoch count a run is configured with
MaxEpoch == 2

----------------------------------------------------------------------------
(* Arithmetic helpers *)

Abs(x) == IF x < 0 THEN -x ELSE x

Max(a, b) == IF a >= b THEN a ELSE b

RECURSIVE Fact(_)
Fact(n) == IF n <= 1 THEN 1 ELSE n * Fact(n - 1)

\* sum of f[lo..hi]
RECURSIVE SumRange(_, _, _)
SumRange(f, lo, hi) == IF lo > hi THEN 0 ELSE f[lo] + SumRange(f, lo + 1, hi)

Range(f) == {f[x] : x \in DOMAIN f}

Perms(n) == {p \in [1..n -> 1..n] : \A a, b \in 1..n : a # b => p[a] # p[b]}

\* Op(v) with v evaluated once (TLC evaluates a definition at each of its uses)
With(v, Op(_)) == CHOOSE r \in {Op(x) : x \in {v}} : TRUE

Zeros(rows, cols) == [k \in 1..rows |-> [c \in 1..cols |-> 0]]

----------------------------------------------------------------------------
(* Group structure (cell "classCount = ...; indices = ...") *)

\* number of original categorical features
F == Len(classCount)

\* faulty variant: the running sum taken before the current entry is added
cumsumExclusive(counts) == [k \in 1..Len(counts) |-> SumRange(counts, 1, k - 1)]

\* np.cumsum(classCount)
cumsum(counts) == [k \in 1..Len(counts) |-> SumRange(counts, 1, k)]

\* indices = np.insert(np.cumsum(classCount), 0, 0): indices[1] = 0 and group j
\* spans the columns indices[j]+1 .. indices[j+1] (Python: [indices[j], indices[j+1]))
indices == <<0>> \o cumsum(classCount)

\* DIM = indices[-1], read before the 0 is inserted: the last cumulative sum
DIM == IF F = 0 THEN 0 ELSE cumsum(classCount)[F]

\* faulty variant: range(indices[j], indices[j+1] + 1), one column too many
GroupColsInclusive(j) == (indices[j] + 1)..(indices[j + 1] + 1)

\* range(indices[j], indices[j+1]) as 1-based columns
GroupCols(j) == (indices[j] + 1)..indices[j + 1]

----------------------------------------------------------------------------
(* aggregateFeature and thresholding *)

\* np.sum(np.abs(np.array(coeff)), axis = 0): per column, the sum over the
\* classes of the absolute values
colMag(coeff) ==
    [c \in 1..Len(coeff[1]) |->
        SumRange([k \in 1..Len(coeff) |-> Abs(coeff[k][c])], 1, Len(coeff))]

\* faulty variant: np.sum in place of np.mean
SliceSum(gradients, current, n) ==
    LET hi == IF current + n > Len(gradients) THEN Len(gradients) ELSE current + n
    IN  <<SumRange([c \in 1..Len(gradients) |-> Abs(gradients[c])], current + 1, hi), 1>>

\* np.mean(np.abs(gradients[current : current + i])) as the pair <<sum, count>>;
\* a Python slice stops at the end of the array
SliceMean(gradients, current, n) ==
    LET hi == IF current + n > Len(gradients) THEN Len(gradients) ELSE current + n
    IN  <<SumRange([c \in 1..Len(gradients) |-> Abs(gradients[c])], current + 1, hi),
          hi - current>>

\* the loop of aggregateFeature from group k on, `current` columns consumed
RECURSIVE aggregateFrom(_, _, _, _)
aggregateFrom(gradients, numSplit, k, current) ==
    IF k > Len(numSplit) THEN <<>>
    ELSE <<SliceMean(gradients, current, numSplit[k])>>
         \o aggregateFrom(gradients, numSplit, k + 1, current + numSplit[k])

aggregateFeature(gradients, numSplit) == aggregateFrom(gradients, numSplit, 1, 0)

\* a <= b for two means <<sum, count>> with count > 0
ScoreLeq(a, b) == a[1] * b[2] <= b[1] * a[2]

\* np.argsort(x): an index order that sorts x ascending.  The default kind
\* ("quicksort") is not stable, so the order among equal scores is whatever the
\* build produces: every ascending order is a possible result.
ArgSorts(x) ==
    {p \in Perms(Len(x)) :
        \A a, b \in 1..Len(x) : a < b => ScoreLeq(x[p[a]], x[p[b]])}

\* faulty variant: order[-(n+1):], one group too many
LastNPlusOne(order, n) == SubSeq(order, Max(1, Len(order) - n), Len(order))

\* faulty variant: order[-(n-1):] for n > 1, one group too few
LastNMinusOne(order, n) ==
    IF n <= 1 THEN order
    ELSE SubSeq(order, Max(1, Len(order) - n + 2), Len(order))

\* faulty variant: order[:n], the n lowest scores
FirstN(order, n) == SubSeq(order, 1, IF n < Len(order) THEN n ELSE Len(order))

\* order[-n:]: the last n entries, all of them when n >= len (and when n = 0)
LastN(order, n) ==
    IF n = 0 THEN order
    ELSE SubSeq(order, Max(1, Len(order) - n + 1), Len(order))

\* faulty variant: the slice [-s:] forgotten, every group ranked best
RankingBestAll(order) == order

\* faulty variant: the slice [:s], the head of the ascending order
RankingBestHead(order) == SubSeq(order, 1, IF s < Len(order) THEN s ELSE Len(order))

\* rankingBest = np.argsort(np.abs(sum_coeff)).ravel()[-s:]
RankingBest(order) == LastN(order, s)

\* selected: the columns of the groups of rankingBest
Selected(ranking) == UNION {GroupCols(ranking[r]) : r \in 1..Len(ranking)}

\* notSelected = set(range(len(coeff))) - selected, coeff the column magnitudes
NotSelected(coeff, ranking) == (1..Len(colMag(coeff))) \ Selected(ranking)

\* copyCof[:, notSelected] = 0
ZeroColumns(coeff, cols) ==
    [k \in 1..Len(coeff) |->
        [c \in 1..Len(coeff[k]) |-> IF c \in cols THEN 0 ELSE coeff[k][c]]]

\* the scores thresholding ranks: aggregateFeature(column magnitudes, classCount)
Scores(coeff) == aggregateFeature(colMag(coeff), classCount)

\* faulty variant: the gradient-step candidate stored as it is
thresholdingSkipped(coeff, order) == coeff

\* thresholding(coeff), with `order` the result of its argsort: the content of
\* copyCof when it is returned
thresholding(coeff, order) ==
    ZeroColumns(coeff, NotSelected(coeff, RankingBest(order)))

\* copyCof = coeff[:] is a basic slice of an ndarray: a view on coeff's buffer
SliceIsView == TRUE

\* content of the caller's array object once thresholding has returned: the
\* index assignment on copyCof writes through a view
ArgAfterCall(coeff, order) ==
    IF SliceIsView THEN thresholding(coeff, order) ELSE coeff

\* faulty variant: <= in place of <
DiagnosticAtEquality(ranking) == IF Len(ranking) <= s THEN 1 ELSE 0

\* if rankingBest.shape[0] < s: print("rankBest less than s features")
Diagnostic(ranking) == IF Len(ranking) < s THEN 1 ELSE 0

----------------------------------------------------------------------------
(* Encoding, class weights and the split (cells "Experiment Setting") *)

\* len(label)
numSamples == Len(label)

\* numClasses = len(np.unique(label))
numClasses == Cardinality(Range(label))

\* OHC.categories_[j]: the values feature j takes in the data
Categories(j) == {data[r][j] : r \in 1..Len(data)}

\* classCount = list(map(len, OHC.categories_))
CategoryCounts == [j \in 1..Len(data[1]) |-> Cardinality(Categories(j))]

\* position of value v among the sorted categories of feature j
CategoryRank(j, v) == Cardinality({u \in Categories(j) : u <= v})

\* OHC.transform(row): a 1 in the column of each feature's category
OneHot(row) ==
    [c \in 1..DIM |->
        IF \E j \in 1..F : c = indices[j] + CategoryRank(j, row[j]) THEN 1 ELSE 0]

\* X_trainC = OHC.transform(X_train).toarray()
EncodedTrain == [t \in 1..Len(trainIdx) |-> OneHot(data[trainIdx[t]])]

\* y_train of train_test_split: the labels of the training samples
TrainLabels == [t \in 1..Len(trainIdx) |-> label[trainIdx[t]]]

\* num_train = X_train.shape[0]
num_train == Len(trainIdx)

\* train_test_split(test_size = 0.3): n_test = ceil(0.3 n), n_train = n - n_test
TrainSize(n) == n - ((3 * n + 9) \div 10)

\* the orders in which train_test_split can return n_train of the n samples
Splits(n) ==
    {t \in [1..TrainSize(n) -> 1..n] :
        \A a, b \in 1..TrainSize(n) : a # b => t[a] # t[b]}

\* faulty variant: n / count(c), the division by numClasses forgotten
classWUnnormalised(c) ==
    (numClasses * Fact(numSamples)) \div Cardinality({r \in 1..numSamples : label[r] = c})

\* classW = compute_class_weight('balanced', ...): n / (numClasses * count(c)),
\* kept in units of n / (numClasses * Fact(n))
classW(c) ==
    Fact(numSamples) \div Cardinality({r \in 1..numSamples : label[r] = c})

\* classWL = [classW[uniqueClasses.index(i)] for i in label]: one weight per
\* sample of the whole data set, in data order
SampleWeights == [r \in 1..numSamples |-> classW(label[r])]

----------------------------------------------------------------------------
(* generateBatch, regression and its gradient *)

\* X_current = X_trainC[index]
BatchX(idx) == [r \in 1..Len(idx) |-> X_trainC[idx[r]]]

\* Y_current = y_train[index]
BatchY(idx) == [r \in 1..Len(idx) |-> y_train[idx[r]]]

\* faulty variant: weight = classWL[:num_train], the weights left unpermuted
BatchWeightUnpermuted(idx) == [r \in 1..Len(idx) |-> classWL[r]]

\* weight = classWL[index]: classWL is indexed by position in the whole data
\* set, index by position in the training set
BatchWeight(idx) == [r \in 1..Len(idx) |-> classWL[idx[r]]]

\* NP.dot(X_current, coeff.T)[r]: the logits of batch row r
Logits(X, coeff, r) ==
    [k \in 1..Len(coeff) |->
        SumRange([c \in 1..Len(coeff[k]) |-> X[r][c] * coeff[k][c]], 1, Len(coeff[k]))]

\* y = exp(z) / sum(exp(z)) in units of 1 / (K * (K + 1)).  exp is not rational:
\* the model keeps what the code's arithmetic decides with it, the order of the
\* probabilities (that of the logits) and their sum, and is exact where the
\* logits of a row are equal (the uniform distribution, as at cof = 0).
Softmax(z) ==
    [k \in 1..Len(z) |->
        2 * Cardinality({l \in 1..Len(z) : z[l] < z[k]})
        + Cardinality({l \in 1..Len(z) : z[l] = z[k]}) + 1]

\* grad(regression)(coeff): d/dcoeff[k][c] of -mean(weight * log(y) * onehot(Y)),
\* the sum over the batch of weight * (y[k] - [Y = k]) * X[c], in the units of cof
\* divided by lr (so that cof - lr * gradient is cof - Gradient below)
Gradient(coeff, X, Y, w) ==
    With([r \in 1..Len(X) |-> Softmax(Logits(X, coeff, r))],
         LAMBDA y :
            [k \in 1..Len(coeff) |->
                [c \in 1..Len(coeff[k]) |->
                    SumRange([r \in 1..Len(X) |->
                                 w[r] * X[r][c]
                                 * (y[r][k]
                                    - (IF Y[r] = k
                                       THEN Len(coeff) * (Len(coeff) + 1) ELSE 0))],
                             1, Len(X))]])

\* cof - lr * gradient
GradientStep(coeff, X, Y, w) ==
    With(Gradient(coeff, X, Y, w),
         LAMBDA g :
            [k \in 1..Len(coeff) |-> [c \in 1..Len(coeff[k]) |-> coeff[k][c] - g[k][c]]])

----------------------------------------------------------------------------
(* The training loop (cell "IHT Model Result") *)

\* the raw category values and class ids the inputs are drawn from
CategoryValues == {1, 2}

FeatureIds == {1, 2}

ClassIds == {1, 2}

\* label vectors of n samples over the classes 1..K, every class observed
LabelVectors(n, K) == {l \in [1..n -> 1..K] : Range(l) = 1..K}

\* label vectors up to a renaming of the classes: the classes are numbered in
\* the order of their first sample
CanonicalLabels(n, K) ==
    {l \in LabelVectors(n, K) :
        \A r \in 1..n : \A c \in 1..(l[r] - 1) : \E q \in 1..(r - 1) : l[q] = c}

\* the splits that keep the training samples in data order
OrderedSplits(n) ==
    {t \in Splits(n) : \A a, b \in 1..TrainSize(n) : a < b => t[a] < t[b]}

\* a call cof = thresholding(coeff): what it leaves in the globals and in the
\* array object it was given
CallThresholding(coeff, order) ==
    /\ coeffArg' = coeff
    /\ coeffObj' = ArgAfterCall(coeff, order)
    /\ retIsView' = SliceIsView
    /\ argsorted' = order
    /\ rankingBest' = RankingBest(order)
    /\ printed' = printed + Diagnostic(RankingBest(order))
    /\ numThresh' = numThresh + 1
    /\ cof' = thresholding(coeff, order)

\* the globals the cells "Experiment Setting" derive from data, label and split
Encoded ==
    /\ X_trainC = EncodedTrain
    /\ y_train = TrainLabels
    /\ classWL = SampleWeights

\* state when the cell starts: cof = np.zeros((numClasses, DIM)), no batch yet
LoopStart ==
    /\ pc = "Initialized"
    /\ i = 0
    /\ index = <<>>
    /\ X_current = <<>>
    /\ Y_current = <<>>
    /\ weight = <<>>
    /\ cof = Zeros(numClasses, DIM)
    /\ evalCof = <<>>
    /\ coeffArg = <<>>
    /\ coeffObj = <<>>
    /\ retIsView = FALSE
    /\ argsorted = <<>>
    /\ rankingBest = <<>>
    /\ printed = 0
    /\ numGrad = 0
    /\ numThresh = 0

\* the samples of the data set of the training-loop specification
SampleIds == 1..3

\* data sets over the given samples.  A feature's values are only ever read
\* through their rank among its categories, so the first sample's values are
\* fixed to name the categories
DataSets(samples) ==
    {d \in [samples -> [FeatureIds -> CategoryValues]] :
        \A j \in FeatureIds : d[1][j] = 1}

Init ==
    /\ data \in DataSets(SampleIds)
    /\ label \in UNION {LabelVectors(Cardinality(SampleIds), K) : K \in ClassIds}
    /\ trainIdx \in Splits(Cardinality(SampleIds))
    /\ classCount = CategoryCounts
    /\ Encoded
    /\ s \in 1..(Len(classCount) + 1)
    /\ epoch \in 1..MaxEpoch
    /\ LoopStart

\* faulty variant: one iteration too many
LoopGuardInclusive == i <= epoch

\* for i in range(epoch)
LoopGuard == i < epoch

\* one iteration of the loop: generateBatch(), the loss and the accuracy of cof,
\* the gradient, the step and the thresholding
Iterate ==
    /\ pc \in {"Initialized", "Running"}
    /\ LoopGuard
    /\ \E idx \in Perms(num_train) :
       \E X \in {BatchX(idx)} : \E Y \in {BatchY(idx)} : \E w \in {BatchWeight(idx)} :
          /\ index' = idx
          /\ X_current' = X
          /\ Y_current' = Y
          /\ weight' = w
          /\ evalCof' = cof
          /\ \E candidate \in {GradientStep(cof, X, Y, w)} :
                \E order \in ArgSorts(Scores(candidate)) :
                    CallThresholding(candidate, order)
    /\ numGrad' = numGrad + 1
    /\ i' = i + 1
    /\ pc' = "Running"
    /\ UNCHANGED <<data, label, trainIdx, X_trainC, y_train, classWL, classCount, s, epoch>>

\* range(epoch) is exhausted: the cell ends
Terminate ==
    /\ pc \in {"Initialized", "Running"}
    /\ ~LoopGuard
    /\ pc' = "Terminated"
    /\ UNCHANGED <<data, label, trainIdx, X_trainC, y_train, classWL, classCount, s, epoch, i, index, X_current,
                   Y_current, weight, cof, evalCof, coeffArg, coeffObj, retIsView,
                   argsorted, rankingBest, printed, numGrad, numThresh>>

Next == Iterate \/ Terminate

Spec == Init /\ [][Next]_vars

\* the runs the termination of the loop is checked on: those of Init with the
\* classes numbered in the order of their first sample and the training
\* samples in data order
InitFair ==
    /\ Init
    /\ label \in UNION {CanonicalLabels(Cardinality(SampleIds), K) : K \in ClassIds}
    /\ trainIdx \in OrderedSplits(Cardinality(SampleIds))

\* the cell runs to its end: nothing suspends the loop
FairSpec == InitFair /\ [][Next]_vars /\ WF_vars(Next)

----------------------------------------------------------------------------
(* Scenario A: 3 classes, 6 samples, 2 features of cardinality 2, s = 1,    *)
(* epoch = 1, from the all-zero matrix                                      *)

InitA ==
    /\ \E f1 \in {<<1, 1, 1, 2, 2, 2>>, <<1, 1, 1, 1, 1, 2>>} :
       \E f2 \in {<<1, 2, 1, 2, 1, 2>>, <<1, 1, 1, 1, 1, 2>>} :
          data = [r \in 1..6 |-> <<f1[r], f2[r]>>]
    /\ label \in CanonicalLabels(6, 3)
    /\ trainIdx \in OrderedSplits(6)
    /\ classCount = CategoryCounts
    /\ Encoded
    /\ s = 1
    /\ epoch = 1
    /\ LoopStart

SpecA == InitA /\ [][Next]_vars

----------------------------------------------------------------------------
(* thresholding as a function: applied to any matrix, then to its own result *)

\* the group structures the matrices are drawn over
GroupShapes == {<<1, 2>>, <<2, 1>>, <<1, 1, 1>>}

\* the matrices of the given shape with entries in -MaxAbs..MaxAbs
Matrices(rows, cols) == [1..rows -> [1..cols -> (-MaxAbs)..MaxAbs]]

InitT ==
    /\ data = <<>>
    /\ label = <<>>
    /\ trainIdx = <<>>
    /\ X_trainC = <<>>
    /\ y_train = <<>>
    /\ classWL = <<>>
    /\ classCount \in GroupShapes
    /\ s \in 1..(Len(classCount) + 1)
    /\ epoch = 0
    /\ pc = "Given"
    /\ i = 0
    /\ index = <<>>
    /\ X_current = <<>>
    /\ Y_current = <<>>
    /\ weight = <<>>
    /\ cof \in Matrices(Cardinality(ClassIds), SumRange(classCount, 1, Len(classCount)))
    /\ evalCof = <<>>
    /\ coeffArg = <<>>
    /\ coeffObj = <<>>
    /\ retIsView = FALSE
    /\ argsorted = <<>>
    /\ rankingBest = <<>>
    /\ printed = 0
    /\ numGrad = 0
    /\ numThresh = 0

\* C = thresholding(C) on the given matrix
ThresholdOnce ==
    /\ pc = "Given"
    /\ \E order \in ArgSorts(Scores(cof)) : CallThresholding(cof, order)
    /\ pc' = "Once"
    /\ UNCHANGED <<data, label, trainIdx, X_trainC, y_train, classWL, classCount, s, epoch, i, index, X_current,
                   Y_current, weight, evalCof, numGrad>>

\* thresholding applied to the matrix the first call returned
ThresholdTwice ==
    /\ pc = "Once"
    /\ \E order \in ArgSorts(Scores(cof)) : CallThresholding(cof, order)
    /\ pc' = "Twice"
    /\ UNCHANGED <<data, label, trainIdx, X_trainC, y_train, classWL, classCount, s, epoch, i, index, X_current,
                   Y_current, weight, evalCof, numGrad>>

NextT == ThresholdOnce \/ ThresholdTwice

SpecT == InitT /\ [][NextT]_vars

----------------------------------------------------------------------------
(* Properties of thresholding *)

\* the columns of group j, from the boundary vector: [indices[j], indices[j+1])
ColumnsOf(j) == {c \in 1..indices[F + 1] : indices[j] < c /\ c <= indices[j + 1]}

\* group j of matrix M holds a non-zero entry
GroupNonZero(M, j) == \E k \in 1..Len(M) : \E c \in ColumnsOf(j) : M[k][c] # 0

NonZeroGroups(M) == {j \in 1..F : GroupNonZero(M, j)}

\* sum over the columns of group j of the column-wise sum of |M[k][c]|
GroupMagnitude(M, j) ==
    SumRange([c \in 1..indices[F + 1] |->
                 SumRange([k \in 1..Len(M) |-> Abs(M[k][c])], 1, Len(M))],
             indices[j] + 1, indices[j + 1])

\* the mean score of group a is strictly greater than that of group b
MeanGreater(M, a, b) ==
    GroupMagnitude(M, a) * classCount[b] > GroupMagnitude(M, b) * classCount[a]

MeanEqual(M, a, b) ==
    GroupMagnitude(M, a) * classCount[b] = GroupMagnitude(M, b) * classCount[a]

\* a thresholding call has returned
Called == numThresh > 0

\* C1: the matrix thresholding returns has at most s groups that contain a
\* non-zero entry, for every matrix, group structure and budget s >= 1
AtMostSGroups == Called => Cardinality(NonZeroGroups(cof)) <= s

AtMostSGroupsWitness ==
    /\ pc = "Once"
    /\ s < F
    /\ Cardinality(NonZeroGroups(coeffArg)) > s
    /\ Cardinality(NonZeroGroups(cof)) = s

\* C2: the output equals the input entry for entry in the columns of the
\* selected groups, the union of [indices[j], indices[j+1]) over them, and is
\* zero in every other column, in every class row
RetainedExactly ==
    Called =>
        /\ Len(cof) = Len(coeffArg)
        /\ \A k \in 1..Len(coeffArg) :
              /\ Len(cof[k]) = Len(coeffArg[k])
              /\ \A c \in 1..Len(coeffArg[k]) :
                    cof[k][c] =
                        IF \E j \in Range(rankingBest) : c \in ColumnsOf(j)
                        THEN coeffArg[k][c] ELSE 0

RetainedExactlyWitness ==
    /\ pc = "Once"
    /\ \E k \in 1..Len(cof) : \E c \in 1..Len(cof[k]) :
          coeffArg[k][c] # 0 /\ cof[k][c] = 0
    /\ \E k \in 1..Len(cof) : \E c \in 1..Len(cof[k]) :
          Abs(cof[k][c]) = MaxAbs /\ cof[k][c] = coeffArg[k][c]

\* C3: thresholding selects exactly min(s, F) groups and no group it zeroes
\* has a mean score strictly greater than that of a group it retains
TopSByMeanScore ==
    Called =>
        /\ Cardinality(Range(rankingBest)) = (IF s < F THEN s ELSE F)
        /\ Len(rankingBest) = (IF s < F THEN s ELSE F)
        /\ Range(rankingBest) \subseteq 1..F
        /\ \A a \in (1..F) \ Range(rankingBest) : \A b \in Range(rankingBest) :
              ~MeanGreater(coeffArg, a, b)

\* a zeroed group whose summed magnitude exceeds that of a retained group of
\* another cardinality, yet whose mean is smaller
TopSByMeanScoreWitness ==
    /\ pc = "Once"
    /\ \E a \in (1..F) \ Range(rankingBest) : \E b \in Range(rankingBest) :
          /\ classCount[a] # classCount[b]
          /\ GroupMagnitude(coeffArg, a) > GroupMagnitude(coeffArg, b)
          /\ MeanGreater(coeffArg, b, a)

\* C4: thresholding does not mutate its argument and its result does not
\* alias it: after the call the caller's array holds its pre-call values
InputNotMutated == Called => coeffObj = coeffArg

\* C5: thresholding(thresholding(C)) = thresholding(C) entry for entry, also
\* with equal scores and with fewer than s non-zero groups
Idempotent == pc = "Twice" => cof = coeffArg

\* the second call ranks a tie across the selection boundary with fewer than s
\* non-zero groups left
IdempotentWitness ==
    /\ pc = "Twice"
    /\ NonZeroGroups(cof) # {}
    /\ Cardinality(NonZeroGroups(coeffArg)) < s
    /\ \E a \in (1..F) \ Range(rankingBest) : \E b \in Range(rankingBest) :
          MeanEqual(coeffArg, a, b)

----------------------------------------------------------------------------
(* Properties of the batch and of the training loop *)

\* C6: in every batch, the weight of row r is the class weight of the label of
\* that same row: weight[r] = classW[Y_current[r]]
WeightMatchesLabel ==
    numGrad > 0 => \A r \in 1..Len(weight) : weight[r] = classW(Y_current[r])

\* C7: the loop goes Initialized -> Running -> Terminated, ends after exactly
\* epoch iterations, each one gradient step and one thresholding, with no
\* early exit, and always ends
ExactlyEpochIterations ==
    /\ <>(pc = "Terminated")
    /\ [](pc = "Terminated" => (i = epoch /\ numGrad = epoch /\ numThresh = epoch))
    /\ [](numGrad = i /\ numThresh = i /\ i <= epoch)
    /\ [][/\ (pc = "Initialized" => pc' \in {"Initialized", "Running"})
          /\ (pc = "Running" => pc' \in {"Running", "Terminated"})
          /\ (pc = "Terminated" => pc' = "Terminated")
          /\ (pc' = "Terminated" => i = epoch)
          /\ (i' # i => (numGrad' = numGrad + 1 /\ numThresh' = numThresh + 1
                         /\ i' = i + 1))]_vars

ExactlyEpochIterationsWitness ==
    pc = "Terminated" /\ epoch = MaxEpoch /\ numGrad = MaxEpoch /\ numThresh = MaxEpoch

\* C8: with s >= F (s = F included) thresholding is a no-op in every iteration
\* of the loop: its output equals its input in every entry
NoOpWhenBudgetCoversAll == (Called /\ s >= F) => cof = coeffArg

NoOpWhenBudgetCoversAllWitness ==
    /\ pc = "Running"
    /\ s = F
    /\ i = MaxEpoch
    /\ Cardinality(NonZeroGroups(cof)) = F
    /\ F > 1

\* C9 as stated: in a run with s >= F the diagnostic is printed exactly once
\* over the whole run, whatever the number of iterations
DiagnosticExactlyOnce == (pc = "Terminated" /\ s >= F) => printed = 1

\* C9 as the code has it: the diagnostic is printed once per thresholding call
\* when s > F and never when s <= F; the run still performs all its
\* iterations and the coefficients come back from the call unchanged
DiagnosticPerCall ==
    /\ printed = (IF s > F THEN numThresh ELSE 0)
    /\ (pc = "Terminated" /\ s > F) => (printed = epoch /\ i = epoch)
    /\ (Called /\ s > F) => cof = coeffArg

DiagnosticPerCallWitness ==
    pc = "Terminated" /\ s > F /\ epoch > 1 /\ printed = epoch /\ cof # Zeros(numClasses, DIM)

----------------------------------------------------------------------------
(* Ties at the selection boundary *)

\* position of group j in the order argsort returned
PositionOf(j) == CHOOSE p \in 1..Len(argsorted) : argsorted[p] = j

\* the groups the last call zeroed
Dropped == (1..F) \ Range(rankingBest)

\* the order argsort returned is the stable one: equal scores in index order
StableOrder ==
    \A p, q \in 1..Len(argsorted) :
        (p < q /\ MeanEqual(coeffArg, argsorted[p], argsorted[q]))
            => argsorted[p] < argsorted[q]

\* C11 as stated: of two groups with equal scores at the boundary of the
\* selection, the one with the lower original index is retained
TieKeepsLowerIndex ==
    Called =>
        \A a \in Dropped : \A b \in Range(rankingBest) :
            MeanEqual(coeffArg, a, b) => b < a

\* C11 as the code has it: the retained groups are those argsort places last,
\* so a tie at the boundary goes to the group argsort places later; when the
\* order is the stable one that is the group with the higher original index
TieFollowsArgsort ==
    Called =>
        /\ Range(argsorted) = 1..F
        /\ \A a \in Dropped : \A b \in Range(rankingBest) :
              PositionOf(a) < PositionOf(b)
        /\ StableOrder =>
              \A a \in Dropped : \A b \in Range(rankingBest) :
                  MeanEqual(coeffArg, a, b) => a < b

\* a tie across the boundary, sorted stably: the higher index is retained
TieFollowsArgsortWitness ==
    /\ pc = "Once"
    /\ s < F
    /\ StableOrder
    /\ \E a \in Dropped : \E b \in Range(rankingBest) :
          /\ MeanEqual(coeffArg, a, b)
          /\ GroupNonZero(coeffArg, a)
          /\ a < b
          /\ ~GroupNonZero(cof, a)
          /\ GroupNonZero(cof, b)

----------------------------------------------------------------------------
(* The boundary vector *)

\* the one-hot columns: one per feature and category of that feature
OneHotColumns == {<<j, v>> \in (1..F) \X (1..DIM) : v <= classCount[j]}

\* C12: for cardinalities all >= 1, indices has F + 1 entries, starts at 0,
\* grows by classCount[k-1] at entry k, never decreases, and ends at the sum of
\* the cardinalities, the number m of one-hot columns (DIM)
BoundaryVector ==
    (\A j \in 1..F : classCount[j] >= 1) =>
        /\ Len(indices) = F + 1
        /\ indices[1] = 0
        /\ \A k \in 2..(F + 1) : indices[k] = indices[k - 1] + classCount[k - 1]
        /\ \A k \in 1..F : indices[k] <= indices[k + 1]
        /\ indices[F + 1] = SumRange(classCount, 1, F)
        /\ indices[F + 1] = Cardinality(OneHotColumns)
        /\ indices[F + 1] = DIM
        /\ \A k \in 1..Len(cof) : Len(cof[k]) = DIM

\* a structure of unequal cardinalities whose boundaries a call has used
BoundaryVectorWitness ==
    /\ pc = "Once"
    /\ classCount = <<2, 1>>
    /\ indices = <<0, 2, 3>>
    /\ DIM = 3
    /\ Range(rankingBest) = {1}
    /\ \A k \in 1..Len(cof) : cof[k][1] # 0 /\ cof[k][2] # 0 /\ cof[k][3] = 0

----------------------------------------------------------------------------
(* Class weights *)

\* number of samples of class c in the whole label vector
CountOf(c) == Cardinality({r \in 1..numSamples : label[r] = c})

\* n in the units of the class weights, n / (numClasses * Fact(n))
SamplesInWeightUnits == numClasses * Fact(numSamples)

\* C13: with every class observed, the balanced class weights satisfy
\* sum over the classes of weight(c) * count(c) = n, and the per-sample weights
\* of the whole label vector sum to n
BalancedWeights ==
    (numSamples > 0 /\ Range(label) = 1..numClasses) =>
        /\ \A c \in 1..numClasses : classW(c) * CountOf(c) * numClasses = SamplesInWeightUnits
        /\ SumRange([c \in 1..numClasses |-> classW(c) * CountOf(c)], 1, numClasses)
              = SamplesInWeightUnits
        /\ Len(classWL) = numSamples
        /\ \A r \in 1..numSamples : classWL[r] = classW(label[r])
        /\ SumRange(classWL, 1, numSamples) = SamplesInWeightUnits

\* three classes of three different sizes, their weights used in a step
BalancedWeightsWitness ==
    /\ numGrad = 1
    /\ numClasses = 3
    /\ numSamples = 6
    /\ CountOf(1) = 3 /\ CountOf(2) = 2 /\ CountOf(3) = 1
    /\ classW(1) < classW(2) /\ classW(2) < classW(3)
    /\ \E r, q \in 1..Len(weight) : weight[r] # weight[q]

----------------------------------------------------------------------------
(* Sparsity over the training run *)

\* C14: at every iteration boundary, the all-zero initial matrix included, cof
\* has at most s non-zero groups; so has every matrix the loss and the accuracy
\* are evaluated on, and the final matrix; a gradient-step candidate with more
\* than s non-zero groups is neither stored in cof nor evaluated
SparseThroughout ==
    /\ Cardinality(NonZeroGroups(cof)) <= s
    /\ pc = "Initialized" => cof = Zeros(numClasses, DIM)
    /\ evalCof # <<>> => Cardinality(NonZeroGroups(evalCof)) <= s
    /\ numGrad = 1 => evalCof = Zeros(numClasses, DIM)
    /\ (Called /\ Cardinality(NonZeroGroups(coeffArg)) > s) =>
          (cof # coeffArg /\ evalCof # coeffArg)

\* a run of MaxEpoch iterations that ends with a dense candidate cut down to s
\* groups, after the loss was evaluated on a non-zero matrix that was at the
\* budget
SparseThroughoutWitness ==
    /\ pc = "Terminated"
    /\ i = MaxEpoch
    /\ s < F
    /\ Cardinality(NonZeroGroups(coeffArg)) > s
    /\ Cardinality(NonZeroGroups(cof)) = s
    /\ Cardinality(NonZeroGroups(evalCof)) = s

----------------------------------------------------------------------------
(* Independence of the batch draw *)

\* the draw that leaves the training set in its own order
IdentityDraw == [r \in 1..num_train |-> r]

\* what the loss sums over the rows of the batch drawn by idx: the weight, the
\* label and the logits of each row
LossTerms(coeff, idx) ==
    [r \in 1..Len(idx) |->
        <<BatchWeight(idx)[r], BatchY(idx)[r], Logits(BatchX(idx), coeff, r)>>]

\* two sequences hold the same terms the same number of times
SameTerms(a, b) ==
    /\ Len(a) = Len(b)
    /\ \A v \in Range(a) \cup Range(b) :
          Cardinality({r \in 1..Len(a) : a[r] = v})
              = Cardinality({r \in 1..Len(b) : b[r] = v})

\* cof - lr * gradient on the batch drawn by idx
CandidateOf(coeff, idx) ==
    GradientStep(coeff, BatchX(idx), BatchY(idx), BatchWeight(idx))

\* C16: the batch is the whole training set under one permutation applied to
\* features, labels and weights alike, so whatever permutation is drawn the
\* loss sums the same terms, the gradient step gives the same candidate and
\* the run continues from the same coefficient matrix
BatchDrawIrrelevant ==
    (num_train > 0 /\ pc # "Given" /\ pc # "Once" /\ pc # "Twice") =>
        /\ numGrad > 0 =>
              /\ index \in Perms(num_train)
              /\ \A r \in 1..num_train :
                    /\ X_current[r] = X_trainC[index[r]]
                    /\ Y_current[r] = y_train[index[r]]
                    /\ weight[r] = classWL[index[r]]
              /\ coeffArg = CandidateOf(evalCof, IdentityDraw)
              /\ SameTerms(LossTerms(evalCof, index), LossTerms(evalCof, IdentityDraw))
        /\ \A idx \in Perms(num_train) :
              /\ CandidateOf(cof, idx) = CandidateOf(cof, IdentityDraw)
              /\ SameTerms(LossTerms(cof, idx), LossTerms(cof, IdentityDraw))

\* a second iteration on a non-zero matrix whose draw swapped two rows that
\* differ in features, label and weight
BatchDrawIrrelevantWitness ==
    /\ i = MaxEpoch
    /\ index # IdentityDraw
    /\ \E r, q \in 1..num_train :
          /\ X_current[r] # X_current[q]
          /\ Y_current[r] # Y_current[q]
          /\ weight[r] # weight[q]
    /\ evalCof # Zeros(numClasses, DIM)
    /\ cof # evalCof

====
